---- MODULE Spec2Model ----
(***************************************************************************)
(* A model of predictor.py: the standings tracker that replays a           *)
(* chronological game log (Predictor.train and the _update_* methods), the *)
(* heuristic rating model (SimplePredictor), the series outcome calculator *)
(* (_predict_bo_match_score) and the stage outcome simulator               *)
(* (predict_stage, _predict_stage, _top3_teams).                           *)
(*                                                                         *)
(* Conventions.                                                            *)
(*  - A Predictor object is a record; every method is an operator from     *)
(*    the record (and the method's arguments) to the record it leaves.     *)
(*  - A defaultdict(int) is a total function whose absent keys read 0, so  *)
(*    clear() is the all-zero function and the key insertion a read makes  *)
(*    is invisible, as it is to every reader in the code.                  *)
(*  - A stage id is a string, modelled as the sequence of its characters;  *)
(*    None is the one-element sequence <<"None">>, which no id contains.   *)
(*  - Heuristic probabilities are in tenths (0.5 is 5, alpha = 0.2 is 2).  *)
(***************************************************************************)
EXTENDS Integers, Sequences, FiniteSets, TLC

\* p: the Predictor object.  pre, game: the object before the last train call
\* and the game that call was given.  obs: the object as evaluate left it and
\* as the training step found it in that call.  h: the bookkeeping of the
\* single-match replay and of the roster replay.  bo: the last call of the
\* series outcome calculator, its arguments and what it returned.  sim: the
\* last call of predict_stage.
VARIABLES p, pre, game, obs, h, bo, sim

vars == <<p, pre, game, obs, h, bo, sim>>

----------------------------------------------------------------------------
(* Bounds of the model. *)

\* Number of games of a replayed log in the general replay specification.
MaxGames == 3

\* Number of maps of one match in the single-match specification.
MaxMaps == 7

\* Number of games replayed before the match in the single-match specification.
MaxPrior == 1

\* Number of games of a log in the roster specification, and the largest
\* roster queue size tried besides the default.
MaxRosterGames == 4

MaxQueue == 3

\* Probabilities given to the series outcome calculator are multiples of
\* 1 / Denom; its format sequences have 1 to MaxFlags maps.
Denom == 4

MaxFlags == 3

\* In the stage specification: the games replayed before predict_stage is
\* called, the games of the remaining schedule it is given, and the
\* iterations of the Monte Carlo loop (iters, 100000 by default).
MaxStageGames == 2

MaxRankGames == 3

MaxTitleGames == 3

MaxSchedule == 1

Iters == 1

----------------------------------------------------------------------------
(* Values. *)

None == <<"None">>

Teams == {"A", "B", "C", "D"}

Pairs == Teams \X Teams

\* Stage ids of the logs: two stages and the title sub-stage of the first.
StageIds == {<<"1">>, <<"1", "T">>, <<"2">>}

MatchFormats == {"regular", "title"}

\* Match ids are positive; 0 stands for None.
NoMatch == 0

MatchIds == 1..(MaxGames + MaxPrior + 1)

\* The default of roster_queue_size.
DefaultQueueSize == 12

\* Rosters are opaque values; each team fields one of two line-ups.
RostersOf(team) == {<<team, 1>>, <<team, 2>>}

ZeroTeams == [t \in Teams |-> 0]

ZeroPairs == [tp \in Pairs |-> 0]

NoScore == [t \in {} |-> 0]

\* 0.5 and the default alpha and beta of SimplePredictor, in tenths.
Half == 5

Alpha == 2

Beta == 0

One == 10

\* log(x / 10), kept symbolic: math.log is injective, and log(1.0) = 0.0.
log(x) == [ln |-> x]

ZeroPoint == log(One)

----------------------------------------------------------------------------
(* Predictor.__init__ and SimplePredictor.__init__ *)

__init__(roster_queue_size, alpha, beta) ==
    [ roster_queue_size |-> roster_queue_size,
      roster_queues |-> [t \in Teams |-> <<>>],
      map_diffs |-> ZeroTeams,
      head_to_head_map_diffs |-> ZeroPairs,
      stage |-> None,
      base_stage |-> None,
      stage_wins |-> ZeroTeams,
      stage_losses |-> ZeroTeams,
      stage_map_diffs |-> ZeroTeams,
      stage_head_to_head_map_diffs |-> ZeroPairs,
      stage_title_wins |-> ZeroTeams,
      stage_title_losses |-> ZeroTeams,
      match_id |-> NoMatch,
      score |-> NoScore,
      scores |-> [m \in MatchIds |-> NoScore],
      match_history |-> [s \in StageIds |-> [t \in Teams |-> <<>>]],
      expected_draws |-> 0,
      real_draws |-> 0,
      points |-> <<>>,
      corrects |-> <<>>,
      alpha |-> alpha,
      beta |-> beta ]

----------------------------------------------------------------------------
(* SimplePredictor.predict: <<p_win, p_draw>> in tenths. *)

\* A variant that also favours the first team on equal map-diffs.
predict_ge(self, teams, drawable) ==
    LET diff1 == self.map_diffs[teams[1]]
        diff2 == self.map_diffs[teams[2]]
    IN  <<IF diff1 >= diff2 THEN Half + self.alpha ELSE Half - self.alpha, 0>>

predict(self, teams, drawable) ==
    LET diff1 == self.map_diffs[teams[1]]
        diff2 == self.map_diffs[teams[2]]
        record == self.head_to_head_map_diffs[teams]
        p_win == IF diff1 > diff2 THEN Half + self.alpha
                 ELSE IF diff1 = diff2
                      THEN IF record > 0 THEN Half + self.beta
                           ELSE IF record = 0 THEN Half
                           ELSE Half - self.beta
                 ELSE Half - self.alpha
    IN  <<p_win, 0>>

----------------------------------------------------------------------------
(* Predictor.evaluate: <<point, correct>>. *)

Max(a, b) == IF a > b THEN a ELSE b

Min(a, b) == IF a < b THEN a ELSE b

evaluate(self, g) ==
    IF g.score[1] = g.score[2] THEN <<ZeroPoint, FALSE>>
    ELSE LET pr == predict(self, g.teams, FALSE)
             p_win == Max(0, Min(pr[1], One))
             p_draw == Max(0, Min(pr[2], One))
             p_loss == One - p_win - p_draw
         IN  IF g.score[1] > g.score[2]
             THEN <<log(2 * p_win), p_win > p_loss>>
             ELSE <<log(2 * p_loss), p_win < p_loss>>

\* The object evaluate leaves: evaluate and predict assign to no attribute,
\* and the keys their reads insert in the defaultdicts hold the default.
evaluate_effect(self, g) == self

\* The key PlayerTrueSkillPredictor._record_team_ratings files a team's
\* ratings under (lines 586-587).
match_key(self, team) ==
    <<self.stage, Len(self.match_history[self.stage][team])>>

----------------------------------------------------------------------------
(* Predictor._update_rosters: deque(maxlen).appendleft for both teams. *)

\* A variant that drops the newest entry of a full queue instead of the oldest.
appendleft_keep_oldest(queue, maxlen, x) ==
    IF Len(queue) >= maxlen THEN queue ELSE <<x>> \o queue

appendleft(queue, maxlen, x) ==
    LET q == <<x>> \o queue
    IN  IF Len(q) > maxlen THEN SubSeq(q, 1, maxlen) ELSE q

_update_rosters(self, g) ==
    LET q1 == [self.roster_queues EXCEPT ![g.teams[1]] =
                   appendleft(@, self.roster_queue_size, g.rosters[1])]
        q2 == [q1 EXCEPT ![g.teams[2]] =
                   appendleft(@, self.roster_queue_size, g.rosters[2])]
    IN  [self EXCEPT !.roster_queues = q2]

----------------------------------------------------------------------------
(* Predictor._update_stage *)

startswith(s, prefix) ==
    /\ Len(prefix) <= Len(s)
    /\ SubSeq(s, 1, Len(prefix)) = prefix

\* A variant that treats the title sub-stage as a new stage.
_update_stage_always_new(self, stage) ==
    IF stage # self.stage
    THEN [self EXCEPT !.base_stage = stage,
                      !.stage = stage,
                      !.stage_wins = ZeroTeams,
                      !.stage_losses = ZeroTeams,
                      !.stage_map_diffs = ZeroTeams,
                      !.stage_head_to_head_map_diffs = ZeroPairs,
                      !.stage_title_wins = ZeroTeams,
                      !.stage_title_losses = ZeroTeams]
    ELSE self

_update_stage(self, stage) ==
    IF stage # self.stage
    THEN IF self.stage # None /\ startswith(stage, self.stage)
         THEN \* Entering the title matches.
              [self EXCEPT !.base_stage = self.stage, !.stage = stage]
         ELSE \* Entering a new stage.
              [self EXCEPT !.base_stage = stage,
                           !.stage = stage,
                           !.stage_wins = ZeroTeams,
                           !.stage_losses = ZeroTeams,
                           !.stage_map_diffs = ZeroTeams,
                           !.stage_head_to_head_map_diffs = ZeroPairs,
                           !.stage_title_wins = ZeroTeams,
                           !.stage_title_losses = ZeroTeams]
    ELSE self

----------------------------------------------------------------------------
(* Predictor._update_match_ids *)

_update_match_ids(self, match_id, teams) ==
    IF match_id # self.match_id
    THEN LET score == [t \in {teams[1], teams[2]} |-> 0]
             h1 == [self.match_history EXCEPT ![self.stage][teams[1]] =
                        Append(@, match_id)]
             h2 == [h1 EXCEPT ![self.stage][teams[2]] = Append(@, match_id)]
         IN  [self EXCEPT !.match_id = match_id,
                          !.score = score,
                          !.scores[match_id] = score,
                          !.match_history = h2]
    ELSE self

----------------------------------------------------------------------------
(* Predictor._update_standings *)

\* A variant that leaves the loser's map-diff alone.
GlobalDiffs_winner_only(self, winner, loser) ==
    [self EXCEPT !.map_diffs[winner] = @ + 1,
                 !.head_to_head_map_diffs[<<winner, loser>>] = @ + 1,
                 !.head_to_head_map_diffs[<<loser, winner>>] = @ - 1]

\* Lines 346-349: the global map-diff and head-to-head map-diff.
GlobalDiffs(self, winner, loser) ==
    [self EXCEPT !.map_diffs[winner] = @ + 1,
                 !.map_diffs[loser] = @ - 1,
                 !.head_to_head_map_diffs[<<winner, loser>>] = @ + 1,
                 !.head_to_head_map_diffs[<<loser, winner>>] = @ - 1]

\* A variant that counts title maps in the stage-scoped records too.
StageDiffs_any_format(self, winner, loser, is_title) ==
    [self EXCEPT
        !.stage_map_diffs[winner] = @ + 1,
        !.stage_map_diffs[loser] = @ - 1,
        !.stage_head_to_head_map_diffs[<<winner, loser>>] = @ + 1,
        !.stage_head_to_head_map_diffs[<<loser, winner>>] = @ - 1]

\* Lines 351-355: the stage-scoped equivalents, regular format only.
StageDiffs(self, winner, loser, is_title) ==
    IF ~is_title
    THEN [self EXCEPT
             !.stage_map_diffs[winner] = @ + 1,
             !.stage_map_diffs[loser] = @ - 1,
             !.stage_head_to_head_map_diffs[<<winner, loser>>] = @ + 1,
             !.stage_head_to_head_map_diffs[<<loser, winner>>] = @ - 1]
    ELSE self

\* A variant that credits the match to whoever takes the lead and never
\* takes the credit back.
MatchResult_no_retraction(self, winner, loser, is_title) ==
    IF self.score[winner] = self.score[loser]
    THEN IF is_title
         THEN [self EXCEPT !.stage_title_wins[winner] = @ + 1,
                           !.stage_title_losses[loser] = @ + 1]
         ELSE [self EXCEPT !.stage_wins[winner] = @ + 1,
                           !.stage_losses[loser] = @ + 1]
    ELSE self

\* A variant that takes the credit back whenever the map winner was behind.
MatchResult_retract_any_deficit(self, winner, loser, is_title) ==
    IF self.score[winner] = self.score[loser]
    THEN IF is_title
         THEN [self EXCEPT !.stage_title_wins[winner] = @ + 1,
                           !.stage_title_losses[loser] = @ + 1]
         ELSE [self EXCEPT !.stage_wins[winner] = @ + 1,
                           !.stage_losses[loser] = @ + 1]
    ELSE IF self.score[winner] < self.score[loser]
    THEN IF is_title
         THEN [self EXCEPT !.stage_title_wins[loser] = @ - 1,
                           !.stage_title_losses[winner] = @ - 1]
         ELSE [self EXCEPT !.stage_wins[loser] = @ - 1,
                           !.stage_losses[winner] = @ - 1]
    ELSE self

\* Lines 357-373: the match result, from the running score before this map.
MatchResult(self, winner, loser, is_title) ==
    IF self.score[winner] = self.score[loser]
    THEN \* The winner won the match.
         IF is_title
         THEN [self EXCEPT !.stage_title_wins[winner] = @ + 1,
                           !.stage_title_losses[loser] = @ + 1]
         ELSE [self EXCEPT !.stage_wins[winner] = @ + 1,
                           !.stage_losses[loser] = @ + 1]
    ELSE IF self.score[winner] = self.score[loser] - 1
    THEN \* The winner avoided the loss.
         IF is_title
         THEN [self EXCEPT !.stage_title_wins[loser] = @ - 1,
                           !.stage_title_losses[winner] = @ - 1]
         ELSE [self EXCEPT !.stage_wins[loser] = @ - 1,
                           !.stage_losses[winner] = @ - 1]
    ELSE self

\* Line 375; self.scores[match_id] is the same dict object as self.score.
IncrementScore(self, winner) ==
    [self EXCEPT !.score[winner] = @ + 1,
                 !.scores[self.match_id][winner] = @ + 1]

_update_standings(self, g) ==
    LET s1 == _update_stage(self, g.stage)
        s2 == _update_match_ids(s1, g.match_id, g.teams)
        is_title == g.match_format = "title"
        winner == IF g.score[1] > g.score[2] THEN g.teams[1] ELSE g.teams[2]
        loser == IF g.score[1] > g.score[2] THEN g.teams[2] ELSE g.teams[1]
    IN  IF g.score[1] # g.score[2]
        THEN IncrementScore(
                 MatchResult(
                     StageDiffs(GlobalDiffs(s2, winner, loser),
                                winner, loser, is_title),
                     winner, loser, is_title),
                 winner)
        ELSE s2

----------------------------------------------------------------------------
(* Predictor._update_draws *)

_update_draws(self, g) ==
    LET e == IF g.drawable
             THEN self.expected_draws + predict(self, g.teams, TRUE)[2]
             ELSE self.expected_draws
        r == IF g.score[1] = g.score[2]
             THEN self.real_draws + 1
             ELSE self.real_draws
    IN  [self EXCEPT !.expected_draws = e, !.real_draws = r]

----------------------------------------------------------------------------
(* SimplePredictor._train *)

_train(self, g) == self

----------------------------------------------------------------------------
(* Predictor.train: the states its steps leave, in program order. *)

\* A variant that trains first and evaluates the game after the updates.
train_steps_late_evaluate(self, g) ==
    LET s0 == _train(self, g)
        s2 == _update_rosters(s0, g)
        s3 == _update_standings(s2, g)
        s4 == _update_draws(s3, g)
        e == evaluate(s4, g)
        s5 == [evaluate_effect(s4, g) EXCEPT !.points = Append(@, e[1]),
                                             !.corrects = Append(@, e[2])]
    IN  [evaluated |-> evaluate_effect(s4, g), training |-> self,
         result |-> s5]

train_steps(self, g) ==
    LET e == evaluate(self, g)
        s0 == evaluate_effect(self, g)
        s1 == [s0 EXCEPT !.points = Append(@, e[1]),
                         !.corrects = Append(@, e[2])]
        s2 == _update_rosters(s1, g)
        s3 == _update_standings(s2, g)
        s4 == _update_draws(s3, g)
        s5 == _train(s4, g)
    IN  [evaluated |-> s0, training |-> s4, result |-> s5]

train(self, g) == train_steps(self, g).result

----------------------------------------------------------------------------
(* Predictor._predict_bo_match_score.  A PScores dict is a function from   *)
(* its keys to masses.  Masses are exact: with per-map probabilities that  *)
(* are numerators over `one`, a mass after n maps is a numerator over      *)
(* one^n, so every product and sum of the code is an integer product and   *)
(* sum, and a mass carried unchanged over a map is multiplied by `one`.    *)

RECURSIVE SumOf(_, _)
SumOf(f, keys) ==
    IF keys = {} THEN 0
    ELSE LET k == CHOOSE x \in keys : TRUE
         IN  f[k] + SumOf(f, keys \ {k})

TotalMass(p_scores) == SumOf(p_scores, DOMAIN p_scores)

RECURSIVE Pow(_, _)
Pow(b, n) == IF n = 0 THEN 1 ELSE b * Pow(b, n - 1)

MassAt(p_scores, k) == IF k \in DOMAIN p_scores THEN p_scores[k] ELSE 0

\* Lines 272-282: one map of the fixed sequence.
BoMap(p_scores, pr, drawable, one) ==
    LET p_win == pr[1]
        p_draw == pr[2]
        p_loss == one - p_win - p_draw
        keys == {<<k[1] + 1, k[2]>> : k \in DOMAIN p_scores}
                \cup {<<k[1], k[2] + 1>> : k \in DOMAIN p_scores}
                \cup (IF drawable THEN DOMAIN p_scores ELSE {})
    IN  [k \in keys |->
            MassAt(p_scores, <<k[1] - 1, k[2]>>) * p_win
            + MassAt(p_scores, <<k[1], k[2] - 1>>) * p_loss
            + (IF drawable THEN MassAt(p_scores, k) * p_draw ELSE 0)]

\* Lines 271-282: the loop over drawables, from map i on.
RECURSIVE BoMaps(_, _, _, _, _, _)
BoMaps(p_scores, p_undrawable, p_drawable, drawables, i, one) ==
    IF i > Len(drawables) THEN p_scores
    ELSE BoMaps(BoMap(p_scores,
                      IF drawables[i] THEN p_drawable ELSE p_undrawable,
                      drawables[i], one),
                p_undrawable, p_drawable, drawables, i + 1, one)

\* A variant whose decider gives the second team the first team's chance.
BoTieBreaker_same_chance(p_scores, p_win, p_loss, one) ==
    LET tied == {k \in DOMAIN p_scores : k[1] = k[2]}
        keys == (DOMAIN p_scores \ tied)
                \cup {<<k[1] + 1, k[2]>> : k \in tied}
                \cup {<<k[1], k[2] + 1>> : k \in tied}
    IN  [k \in keys |->
            (IF k[1] - 1 = k[2]
             THEN MassAt(p_scores, <<k[1] - 1, k[2]>>) * p_win ELSE 0)
            + (IF k[1] = k[2] - 1
               THEN MassAt(p_scores, <<k[1], k[2] - 1>>) * p_win ELSE 0)
            + (IF k[1] # k[2] THEN MassAt(p_scores, k) * one ELSE 0)]

\* Lines 284-295: the tie-breaker map.
BoTieBreaker(p_scores, p_win, p_loss, one) ==
    LET tied == {k \in DOMAIN p_scores : k[1] = k[2]}
        keys == (DOMAIN p_scores \ tied)
                \cup {<<k[1] + 1, k[2]>> : k \in tied}
                \cup {<<k[1], k[2] + 1>> : k \in tied}
    IN  [k \in keys |->
            (IF k[1] - 1 = k[2]
             THEN MassAt(p_scores, <<k[1] - 1, k[2]>>) * p_win ELSE 0)
            + (IF k[1] = k[2] - 1
               THEN MassAt(p_scores, <<k[1], k[2] - 1>>) * p_loss ELSE 0)
            + (IF k[1] # k[2] THEN MassAt(p_scores, k) * one ELSE 0)]

\* The body of _predict_bo_match_score after its two predict calls, for a
\* sequence of at least one map.  The tie-breaker reads p_win from
\* p_undrawable (line 285) and p_loss as the loop last assigned it (line
\* 273), that is, from the last map of the sequence.
bo_match_score(p_undrawable, p_drawable, drawables, one) ==
    LET last == IF drawables[Len(drawables)] THEN p_drawable
                ELSE p_undrawable
        p_loss == one - last[1] - last[2]
        start == [k \in {<<0, 0>>} |-> 1]
    IN  BoTieBreaker(
            BoMaps(start, p_undrawable, p_drawable, drawables, 1, one),
            p_undrawable[1], p_loss, one)

_predict_bo_match_score(self, teams, drawables) ==
    bo_match_score(predict(self, teams, FALSE), predict(self, teams, TRUE),
                   drawables, One)

----------------------------------------------------------------------------
(* Predictor.predict_match_score *)

FormatDrawables(match_format) ==
    IF match_format = "regular" THEN <<TRUE, FALSE, TRUE, FALSE>>
    ELSE <<FALSE, FALSE, TRUE, TRUE, FALSE>>

NotImplementedError == [raised |-> "NotImplementedError"]

predict_match_score(self, teams, match_format) ==
    IF match_format \in {"regular", "title"}
    THEN _predict_bo_match_score(self, teams, FormatDrawables(match_format))
    ELSE NotImplementedError

----------------------------------------------------------------------------
(* Predictor.predict_match, Predictor._p_wins, Predictor._stage_teams *)

\* <<p_win, total>>: the mass of the scores the first team wins, and the
\* total the masses are numerators over.  (e_diff is not used by the stage
\* prediction.)
predict_match(self, teams, match_format) ==
    LET p_scores == predict_match_score(self, teams, match_format)
        won == {k \in DOMAIN p_scores : k[1] > k[2]}
    IN  <<SumOf(p_scores, won), Pow(One, Len(FormatDrawables(match_format)) + 1)>>

_p_wins(self, teams, match_format) ==
    [tp \in teams \X teams |-> predict_match(self, tp, match_format)]

\* The teams the availabilities list for the current stage: all four.
_stage_teams(self) == Teams

\* random() < p_win, for p_win = pw[1] / pw[2]: random() is in [0, 1).
RandomBelow(pw) ==
    {b \in BOOLEAN : (b /\ pw[1] > 0) \/ (~b /\ pw[1] < pw[2])}

----------------------------------------------------------------------------
(* Predictor._top3_teams.  sorted(teams, key=cmp_to_key(cmp_team),         *)
(* reverse=True) on a list of fewer than 64 items: the list is reversed,   *)
(* its leading run is found (and reversed if strictly descending), the     *)
(* remaining items are inserted by binary search, and the list is reversed *)
(* again; every comparison is cmp_team(x, y) < 0.  cmp_team draws at       *)
(* random on a full tie, so an operator gives the set of its outcomes.     *)

\* The outcomes of cmp_team(team1, team2) < 0 on the counters c.
cmp_team_lt(c, team1, team2) ==
    IF c.wins[team1] < c.wins[team2] THEN {TRUE}
    ELSE IF c.wins[team1] > c.wins[team2] THEN {FALSE}
    ELSE IF c.map_diffs[team1] < c.map_diffs[team2] THEN {TRUE}
    ELSE IF c.map_diffs[team1] > c.map_diffs[team2] THEN {FALSE}
    ELSE IF c.head_to_head_map_diffs[<<team1, team2>>] < 0 THEN {TRUE}
    ELSE IF c.head_to_head_map_diffs[<<team1, team2>>] > 0 THEN {FALSE}
    ELSE {~b : b \in RandomBelow(c.p_wins_regular[<<team1, team2>>])}

Reverse(a) == [i \in 1..Len(a) |-> a[Len(a) - i + 1]]

\* The lengths the leading run of a may have, a[1..n] being in it already.
RECURSIVE RunLengths(_, _, _, _)
RunLengths(c, a, n, descending) ==
    IF n = Len(a) THEN {n}
    ELSE UNION {IF lt = descending
                THEN RunLengths(c, a, n + 1, descending)
                ELSE {n} : lt \in cmp_team_lt(c, a[n + 1], a[n])}

\* count_run: the lists and run lengths after the leading run is found.
CountRun(c, a) ==
    IF Len(a) < 2 THEN {<<a, Len(a)>>}
    ELSE UNION {{<<IF descending
                   THEN Reverse(SubSeq(a, 1, n)) \o SubSeq(a, n + 1, Len(a))
                   ELSE a, n>> : n \in RunLengths(c, a, 2, descending)} :
                descending \in cmp_team_lt(c, a[2], a[1])}

\* The positions (number of items kept to the left) binary search may give
\* pivot in the sorted prefix a[1..Len(a)], searching positions l..r.
RECURSIVE InsertPositions(_, _, _, _, _)
InsertPositions(c, a, pivot, l, r) ==
    IF l >= r THEN {l}
    ELSE LET m == l + ((r - l) \div 2)
         IN  UNION {IF lt
                    THEN InsertPositions(c, a, pivot, l, m)
                    ELSE InsertPositions(c, a, pivot, m + 1, r) :
                    lt \in cmp_team_lt(c, pivot, a[m + 1])}

\* binarysort: the lists after a[start..] is inserted into a[1..start - 1].
RECURSIVE BinarySort(_, _, _)
BinarySort(c, a, start) ==
    IF start > Len(a) THEN {a}
    ELSE UNION {BinarySort(c,
                           SubSeq(a, 1, l) \o <<a[start]>>
                               \o SubSeq(a, l + 1, start - 1)
                               \o SubSeq(a, start + 1, Len(a)),
                           start + 1) :
                l \in InsertPositions(c, a, a[start], 0, start - 1)}

sorted_reverse(c, a) ==
    {Reverse(b) : b \in UNION {BinarySort(c, run[1], run[2] + 1) :
                                   run \in CountRun(c, Reverse(a))}}

\* A variant that sorts in ascending order.
_top3_teams_ascending(c, teams) ==
    {SubSeq(Reverse(a), 1, 3) : a \in sorted_reverse(c, teams)}

\* The top-3 lists _top3_teams may return for the list `teams`.
_top3_teams(c, teams) ==
    {SubSeq(a, 1, 3) : a \in sorted_reverse(c, teams)}

----------------------------------------------------------------------------
(* Predictor._predict_stage: one iteration of its loop. *)

\* Lines 393-414 and 219: the scores choices() may return for a game, those
\* of positive weight in the regular-format distribution.
SampleScores(self, g) ==
    LET p_scores == predict_match_score(self, g.teams, "regular")
    IN  {k \in DOMAIN p_scores : p_scores[k] > 0}

\* A variant that leaves the second team's head-to-head record alone.
ApplySample_one_sided(c, g, score) ==
    LET team1 == g.teams[1]
        team2 == g.teams[2]
        map_diff == score[1] - score[2]
    IN  [c EXCEPT !.wins[team1] = IF score[1] > score[2] THEN @ + 1 ELSE @,
                  !.wins[team2] = IF score[1] < score[2] THEN @ + 1 ELSE @,
                  !.map_diffs[team1] = @ + map_diff,
                  !.map_diffs[team2] = @ - map_diff,
                  !.head_to_head_map_diffs[<<team1, team2>>] = @ + map_diff]

\* Lines 218-231: one sampled series score applied to the private copy.
ApplySample(c, g, score) ==
    LET team1 == g.teams[1]
        team2 == g.teams[2]
        map_diff == score[1] - score[2]
    IN  [c EXCEPT !.wins[team1] = IF score[1] > score[2] THEN @ + 1 ELSE @,
                  !.wins[team2] = IF score[1] < score[2] THEN @ + 1 ELSE @,
                  !.map_diffs[team1] = @ + map_diff,
                  !.map_diffs[team2] = @ - map_diff,
                  !.head_to_head_map_diffs[<<team1, team2>>] = @ + map_diff,
                  !.head_to_head_map_diffs[<<team2, team1>>] = @ - map_diff]

\* Lines 211-231: the private copies an iteration may end with, the games
\* from the i-th on still to be sampled.
RECURSIVE Sampled(_, _, _, _)
Sampled(self, c, games, i) ==
    IF i > Len(games) THEN {c}
    ELSE UNION {Sampled(self, ApplySample(c, games[i], score), games, i + 1) :
                    score \in SampleScores(self, games[i])}

\* Lines 211-213 and 204: the copies of the stage counters, with the
\* regular-format win probabilities the comparator draws with.
StageCopy(self) ==
    [wins |-> self.stage_wins,
     map_diffs |-> self.stage_map_diffs,
     head_to_head_map_diffs |-> self.stage_head_to_head_map_diffs,
     p_wins_regular |-> _p_wins(self, _stage_teams(self), "regular")]

\* Lines 240-254: the teams that may end first.
Top1(self, top3) ==
    LET first == top3[1]
        second == top3[2]
        third == top3[3]
        p_wins_title == _p_wins(self, _stage_teams(self), "title")
        seconds == IF self.stage_title_wins[second] > 0 THEN {second}
                   ELSE IF self.stage_title_wins[third] > 0 THEN {third}
                   ELSE {IF b THEN third ELSE second :
                            b \in RandomBelow(p_wins_title[<<third, second>>])}
    IN  UNION {IF self.stage_title_wins[first] > 0 THEN {first}
               ELSE IF self.stage_title_wins[s] > 1 THEN {s}
               ELSE {IF b THEN s ELSE first :
                        b \in RandomBelow(p_wins_title[<<s, first>>])} :
               s \in seconds}

\* The orders in which a set of teams may be enumerated.
Orders(teams) ==
    {a \in [1..Cardinality(teams) -> teams] :
         \A i, j \in 1..Cardinality(teams) : a[i] = a[j] => i = j}

----------------------------------------------------------------------------
(* Predictor.predict_stage *)

\* Lines 162-163.
StageGames(self, games) ==
    SelectSeq(games, LAMBDA g : g.stage = self.stage
                                /\ g.match_format = "regular")

\* The number of times a team is named in the games.
Appearances(games, team) ==
    Cardinality({x \in (1..Len(games)) \X {1, 2} :
                     games[x[1]].teams[x[2]] = team})

\* Lines 168-179: the worst-case and best-case (wins, map_diff) pairs.
min_wins(self, games) ==
    [t \in _stage_teams(self) |->
        <<self.stage_wins[t],
          self.stage_map_diffs[t] - 4 * Appearances(games, t)>>]

max_wins(self, games) ==
    [t \in _stage_teams(self) |->
        <<self.stage_wins[t] + Appearances(games, t),
          self.stage_map_diffs[t] + 4 * Appearances(games, t)>>]

\* Tuple comparison a < b.
PairLess(a, b) == a[1] < b[1] \/ (a[1] = b[1] /\ a[2] < b[2])

\* list(sorted(f.values()))[-k]
KthLargest(f, k) ==
    CHOOSE v \in {f[t] : t \in DOMAIN f} :
        /\ Cardinality({t \in DOMAIN f : PairLess(v, f[t])}) < k
        /\ Cardinality({t \in DOMAIN f : ~PairLess(f[t], v)}) >= k

\* A variant that compares with the 3rd-largest best case less one win.
max_4th_wins_lenient(self, games) ==
    LET v == KthLargest(max_wins(self, games), 3) IN <<v[1] - 1, v[2]>>

min_3rd_wins(self, games) == KthLargest(min_wins(self, games), 3)

max_4th_wins(self, games) == KthLargest(max_wins(self, games), 4)

stage_finished(self) ==
    SumOf(self.stage_title_losses, DOMAIN self.stage_title_losses) = 2

\* A definite answer, or the frequency count / iters.
Definite(b) == [bool |-> b]

Frequency(count, iters) == [count |-> count, iters |-> iters]

\* Lines 184-196: the normalised prediction of one team.
Normalize(self, games, team, p_top3, p_top1) ==
    IF PairLess(max_wins(self, games)[team], min_3rd_wins(self, games))
    THEN <<Definite(FALSE), Definite(FALSE)>>
    ELSE IF PairLess(max_4th_wins(self, games), min_wins(self, games)[team])
    THEN <<Definite(TRUE),
           IF self.stage_title_losses[team] > 0 THEN Definite(FALSE)
           ELSE IF stage_finished(self) THEN Definite(TRUE)
           ELSE p_top1>>
    ELSE <<p_top3, p_top1>>

----------------------------------------------------------------------------
(* The game logs fed to train. *)

NoGame == [match_id |-> NoMatch]

NoCall == [call |-> "none"]

Game(teams, score, stage, match_id, match_format, drawable, rosters) ==
    [teams |-> teams, score |-> score, stage |-> stage,
     match_id |-> match_id, match_format |-> match_format,
     drawable |-> drawable, rosters |-> rosters]

\* Map results as <<score, drawable>>: a 4-0 win of the first team on an
\* undrawable map, a 2-3 loss and a 1-1 draw on a drawable one.
Results == {<<<<4, 0>>, FALSE>>, <<<<2, 3>>, TRUE>>, <<<<1, 1>>, TRUE>>}

Decisive(score) == score[1] # score[2]

\* The next map of the match in progress: same id, teams, stage and format.
NextMaps(self, last, results, rosterSets(_)) ==
    IF last = NoGame THEN {}
    ELSE {Game(last.teams, res[1], last.stage, last.match_id,
               last.match_format, res[2], <<r1, r2>>) :
              res \in results,
              r1 \in rosterSets(last.teams[1]),
              r2 \in rosterSets(last.teams[2])}

\* The first map of a new match: the next match id, one of the given team
\* pairs, one of the given <<stage, match_format>> pairs.
NewMatches(self, teamPairs, stageFormats, results, rosterSets(_)) ==
    UNION {{Game(x[1], res[1], x[2][1], self.match_id + 1, x[2][2], res[2],
                 <<r1, r2>>) :
                res \in results,
                r1 \in rosterSets(x[1][1]), r2 \in rosterSets(x[1][2])} :
           x \in teamPairs \X stageFormats}

\* A map is drawn only where a draw is a legal result.
WellFormed(g) == g.score[1] = g.score[2] => g.drawable

----------------------------------------------------------------------------
(* The replay specification: any well-formed log of at most MaxGames games *)
(* among the teams A, B and C.                                             *)

ReplayPairs == {<<"A", "B">>, <<"C", "B">>}

\* Regular and title matches of stage "1", its title sub-stage, a new stage.
ReplayStages ==
    {<<<<"1">>, "regular">>, <<<<"1">>, "title">>,
     <<<<"1", "T">>, "title">>, <<<<"2">>, "regular">>}

OneRoster(team) == {<<team, 1>>}

Init ==
    /\ p = __init__(DefaultQueueSize, Alpha, Beta)
    /\ pre = p
    /\ game = NoGame
    /\ obs = [evaluated |-> p, training |-> p]
    /\ bo = NoCall
    /\ sim = NoCall
    /\ h = NoMatch

Train(g) ==
    /\ WellFormed(g)
    /\ p' = train(p, g)
    /\ pre' = p
    /\ game' = g
    /\ obs' = [evaluated |-> train_steps(p, g).evaluated,
               training |-> train_steps(p, g).training]
    /\ UNCHANGED <<bo, sim>>

ContinueMatch ==
    /\ Len(p.points) < MaxGames
    /\ \E g \in NextMaps(p, game, Results, OneRoster) : Train(g)
    /\ UNCHANGED h

StartMatch ==
    /\ Len(p.points) < MaxGames
    /\ \E g \in NewMatches(p, ReplayPairs, ReplayStages, Results, OneRoster) :
           Train(g)
    /\ UNCHANGED h

Next == ContinueMatch \/ StartMatch

Spec == Init /\ [][Next]_vars

----------------------------------------------------------------------------
(* The single-match specification: at most MaxPrior games of any kind      *)
(* between A and B, then one regular-format match of at most MaxMaps       *)
(* decisive maps under a new match id, replayed contiguously.  h keeps the *)
(* object as it was before the match, the maps each team has won and the   *)
(* teams that have trailed in the match.                                   *)

MatchPairs == {<<"A", "B">>, <<"B", "A">>}

DecisiveResults == {res \in Results : Decisive(res[1])}

MapWinner(g) == IF g.score[1] > g.score[2] THEN g.teams[1] ELSE g.teams[2]

MapLoser(g) == IF g.score[1] > g.score[2] THEN g.teams[2] ELSE g.teams[1]

InitMatch ==
    /\ p = __init__(DefaultQueueSize, Alpha, Beta)
    /\ pre = p
    /\ game = NoGame
    /\ obs = [evaluated |-> p, training |-> p]
    /\ bo = NoCall
    /\ sim = NoCall
    /\ h = [phase |-> "prior", start |-> p, maps |-> 0, won |-> ZeroTeams,
            trailed |-> {}]

PriorGame ==
    /\ h.phase = "prior"
    /\ Len(p.points) < MaxPrior
    /\ \E g \in NextMaps(p, game, Results, OneRoster)
                \cup NewMatches(p, MatchPairs, ReplayStages, Results,
                                OneRoster) :
           Train(g)
    /\ UNCHANGED h

FirstMap ==
    /\ h.phase = "prior"
    /\ \E tp \in MatchPairs, st \in StageIds, res \in DecisiveResults :
           LET g == Game(tp, res[1], st, p.match_id + 1, "regular", res[2],
                         <<<<tp[1], 1>>, <<tp[2], 1>>>>)
           IN  /\ Train(g)
               /\ h' = [phase |-> "match", start |-> p, maps |-> 1,
                        won |-> [ZeroTeams EXCEPT ![MapWinner(g)] = 1],
                        trailed |-> {MapLoser(g)}]

NextMap ==
    /\ h.phase = "match"
    /\ h.maps < MaxMaps
    /\ \E res \in DecisiveResults :
           LET g == [game EXCEPT !.score = res[1], !.drawable = res[2]]
               won == [h.won EXCEPT ![MapWinner(g)] = @ + 1]
           IN  /\ Train(g)
               /\ h' = [h EXCEPT !.maps = @ + 1,
                                 !.won = won,
                                 !.trailed = @ \cup
                                     {t \in {MapLoser(g)} :
                                          won[t] < won[MapWinner(g)]}]

NextMatch == PriorGame \/ FirstMap \/ NextMap

SpecMatch == InitMatch /\ [][NextMatch]_vars

----------------------------------------------------------------------------
(* The roster specification: a predictor built with any of the queue sizes *)
(* replays at most MaxRosterGames games, each team fielding either of its  *)
(* line-ups.  h keeps every roster a team has fielded, oldest first.       *)

QueueSizes == (1..MaxQueue) \cup {DefaultQueueSize}

RosterStages == {<<<<"1">>, "regular">>}

RosterResults == {<<<<4, 0>>, FALSE>>}

InitRoster ==
    /\ \E size \in QueueSizes : p = __init__(size, Alpha, Beta)
    /\ pre = p
    /\ game = NoGame
    /\ obs = [evaluated |-> p, training |-> p]
    /\ bo = NoCall
    /\ sim = NoCall
    /\ h = [played |-> [t \in Teams |-> <<>>]]

RosterGame ==
    /\ Len(p.points) < MaxRosterGames
    /\ \E g \in NewMatches(p, ReplayPairs, RosterStages, RosterResults,
                           RostersOf) :
           /\ Train(g)
           /\ h' = [played |->
                        [h.played EXCEPT
                            ![g.teams[1]] = Append(@, g.rosters[1]),
                            ![g.teams[2]] = Append(@, g.rosters[2])]]

NextRoster == RosterGame

SpecRoster == InitRoster /\ [][NextRoster]_vars

----------------------------------------------------------------------------
(* The series specification: the series outcome calculator is called with  *)
(* any format sequence of 1 to MaxFlags maps, and predict_match_score with *)
(* any format name, for every pair of per-map probabilities in multiples   *)
(* of 1 / Denom that a rating model may return: no draw on an undrawable   *)
(* map, any win and draw probability of sum at most 1 on a drawable one.   *)
(* Each call is made again for the two teams in the other order, the       *)
(* rating model then giving the first-named team the other team's chance.  *)
(* The calculator keeps no state, so a behaviour makes one call.           *)

RECURSIVE FlagSeqs(_)
FlagSeqs(n) ==
    IF n = 0 THEN {<<>>}
    ELSE {Append(fs, b) : fs \in FlagSeqs(n - 1), b \in BOOLEAN}

Formats == UNION {FlagSeqs(n) : n \in 1..MaxFlags}

Undrawables == {<<w, 0>> : w \in 0..Denom}

Drawables == {pr \in (0..Denom) \X (0..Denom) : pr[1] + pr[2] <= Denom}

OtherOrder(pr) == <<Denom - pr[1] - pr[2], pr[2]>>

FormatNames == {"regular", "title", "bo3"}

InitSeries ==
    /\ p = __init__(DefaultQueueSize, Alpha, Beta)
    /\ pre = p
    /\ game = NoGame
    /\ obs = [evaluated |-> p, training |-> p]
    /\ h = NoMatch
    /\ bo = NoCall
    /\ sim = NoCall

PredictBoMatchScore ==
    /\ bo = NoCall
    /\ \E pu \in Undrawables, pd \in Drawables, ds \in Formats :
           bo' = [call |-> "_predict_bo_match_score",
                  p_undrawable |-> pu, p_drawable |-> pd, drawables |-> ds,
                  p_scores |-> bo_match_score(pu, pd, ds, Denom),
                  other_order |-> bo_match_score(OtherOrder(pu),
                                                 OtherOrder(pd), ds, Denom)]
    /\ UNCHANGED <<p, pre, game, obs, h, sim>>

PredictMatchScore ==
    /\ bo = NoCall
    /\ \E pu \in Undrawables, pd \in Drawables, f \in FormatNames :
           bo' = [call |-> "predict_match_score",
                  p_undrawable |-> pu, p_drawable |-> pd, match_format |-> f,
                  drawables |-> FormatDrawables(f),
                  p_scores |->
                      IF f \in {"regular", "title"}
                      THEN bo_match_score(pu, pd, FormatDrawables(f), Denom)
                      ELSE NotImplementedError,
                  other_order |->
                      IF f \in {"regular", "title"}
                      THEN bo_match_score(OtherOrder(pu), OtherOrder(pd),
                                          FormatDrawables(f), Denom)
                      ELSE NotImplementedError]
    /\ UNCHANGED <<p, pre, game, obs, h, sim>>

NextSeries == PredictBoMatchScore \/ PredictMatchScore

SpecSeries == InitSeries /\ [][NextSeries]_vars

----------------------------------------------------------------------------
(* The stage specification: at most MaxStageGames games among four teams   *)
(* are replayed, then predict_stage is called with a remaining schedule of *)
(* at most MaxSchedule games and runs the Iters iterations of its loop,    *)
(* each a step, before it normalises the prediction.  sim.last is the      *)
(* private copy the last iteration ended with.  The order in which the set *)
(* of teams is enumerated is arbitrary: every order is tried in every      *)
(* iteration.                                                              *)

StagePairs == {<<"A", "B">>, <<"C", "D">>}

StageStages == {<<<<"1">>, "regular">>, <<<<"2">>, "regular">>}

FuturePairs == {<<"A", "B">>, <<"C", "A">>}

\* The unplayed games a schedule is made of: regular games of the current
\* stage, and a title game, which predict_stage leaves out.
FutureGames(self) ==
    {[teams |-> tp, stage |-> self.stage, match_format |-> "regular"] :
         tp \in FuturePairs}
    \cup {[teams |-> <<"A", "B">>, stage |-> self.stage,
           match_format |-> "title"]}

RECURSIVE Schedules(_, _)
Schedules(self, n) ==
    IF n = 0 THEN {<<>>}
    ELSE Schedules(self, n - 1)
         \cup {Append(sch, g) : sch \in Schedules(self, n - 1),
                                g \in FutureGames(self)}

InitStage ==
    /\ p = __init__(DefaultQueueSize, Alpha, Beta)
    /\ pre = p
    /\ game = NoGame
    /\ obs = [evaluated |-> p, training |-> p]
    /\ h = NoMatch
    /\ bo = NoCall
    /\ sim = NoCall

StageReplay ==
    /\ sim = NoCall
    /\ Len(p.points) < MaxStageGames
    /\ \E g \in NextMaps(p, game, DecisiveResults, OneRoster)
                \cup NewMatches(p, StagePairs, StageStages, DecisiveResults,
                                OneRoster) :
           /\ WellFormed(g)
           /\ p' = train(p, g)
           /\ pre' = p
           /\ game' = g
           /\ obs' = [evaluated |-> train_steps(p, g).evaluated,
                      training |-> train_steps(p, g).training]
    /\ UNCHANGED <<h, bo, sim>>

PredictStageCall ==
    /\ sim = NoCall
    /\ p.stage # None
    /\ \E games \in Schedules(p, MaxSchedule) :
           sim' = [call |-> "predict_stage",
                   games |-> StageGames(p, games),
                   i |-> 0,
                   top3_count |-> [t \in _stage_teams(p) |-> 0],
                   top1_count |-> [t \in _stage_teams(p) |-> 0],
                   last |-> NoCall,
                   prediction |-> NoCall]
    /\ UNCHANGED <<p, pre, game, obs, h, bo>>

PredictStageIteration ==
    /\ sim.call = "predict_stage"
    /\ sim.i < Iters
    /\ \E c \in Sampled(p, StageCopy(p), sim.games, 1) :
           \E top3 \in UNION {_top3_teams(c, order) :
                                  order \in Orders(_stage_teams(p))} :
               \E first \in Top1(p, top3) :
                   sim' = [sim EXCEPT
                              !.i = @ + 1,
                              !.top3_count =
                                  [t \in DOMAIN @ |->
                                      IF \E j \in 1..3 : top3[j] = t
                                      THEN @[t] + 1 ELSE @[t]],
                              !.top1_count[first] = @ + 1,
                              !.last = [wins |-> c.wins,
                                        map_diffs |-> c.map_diffs,
                                        head_to_head_map_diffs |->
                                            c.head_to_head_map_diffs,
                                        top3 |-> top3,
                                        first |-> first]]
    /\ UNCHANGED <<p, pre, game, obs, h, bo>>

PredictStageReturn ==
    /\ sim.call = "predict_stage"
    /\ sim.i = Iters
    /\ sim.prediction = NoCall
    /\ sim' = [sim EXCEPT !.prediction =
                   [t \in _stage_teams(p) |->
                       Normalize(p, sim.games, t,
                                 Frequency(sim.top3_count[t], Iters),
                                 Frequency(sim.top1_count[t], Iters))]]
    /\ UNCHANGED <<p, pre, game, obs, h, bo>>

NextStage ==
    \/ StageReplay
    \/ PredictStageCall
    \/ PredictStageIteration
    \/ PredictStageReturn

SpecStage == InitStage /\ [][NextStage]_vars

----------------------------------------------------------------------------
(* The ranking specification: at most MaxRankGames single-map regular      *)
(* matches among A, B and C are replayed in one stage, then one iteration  *)
(* of _predict_stage samples a schedule of at most one game and ranks the  *)
(* four stage teams, enumerated in any order.  sim.c is the iteration's    *)
(* private copy, sim.top3 the list _top3_teams returned.                   *)

RankPairs == {<<"A", "B">>, <<"B", "C">>, <<"C", "A">>}

RankStages == {<<<<"1">>, "regular">>}

RankSchedules(self) ==
    {<<>>} \cup {<<[teams |-> <<"A", "B">>, stage |-> self.stage,
                     match_format |-> "regular"]>>}

InitRank ==
    /\ p = __init__(DefaultQueueSize, Alpha, Beta)
    /\ pre = p
    /\ game = NoGame
    /\ obs = [evaluated |-> p, training |-> p]
    /\ h = NoMatch
    /\ bo = NoCall
    /\ sim = NoCall

RankReplay ==
    /\ sim = NoCall
    /\ Len(p.points) < MaxRankGames
    /\ \E g \in NewMatches(p, RankPairs, RankStages, DecisiveResults,
                            OneRoster) :
           Train(g)
    /\ UNCHANGED h

Top3Teams ==
    /\ sim = NoCall
    /\ p.stage # None
    /\ \E games \in RankSchedules(p) :
           \E c \in Sampled(p, StageCopy(p), StageGames(p, games), 1) :
               \E top3 \in UNION {_top3_teams(c, order) :
                                      order \in Orders(_stage_teams(p))} :
                   sim' = [call |-> "_top3_teams", c |-> c, top3 |-> top3]
    /\ UNCHANGED <<p, pre, game, obs, h, bo>>

NextRank == RankReplay \/ Top3Teams

SpecRank == InitRank /\ [][NextRank]_vars

----------------------------------------------------------------------------
(* The title specification: a prefix of at most MaxTitleGames maps of a    *)
(* chronological log is replayed, regular matches of stage "1" and title   *)
(* matches of its title sub-stage, and predict_stage is called after it,   *)
(* between two matches or between two maps of one.  Every map of the log   *)
(* is or is not the last of its match, and a match ends with one team      *)
(* ahead.  h.more tells whether the match of the last game has maps to     *)
(* come, h.lost the teams that have lost a title match of the stage all of *)
(* whose maps are replayed, h.done the number of those matches.            *)

TitleRegularPairs == {<<"D", "B">>}

TitlePairs == {<<"A", "C">>, <<"A", "D">>}

TitleStage == <<"1", "T">>

TitleLogGames(self) ==
    IF h.more
    THEN NextMaps(self, game, DecisiveResults, OneRoster)
    ELSE NewMatches(self, TitleRegularPairs, {<<<<"1">>, "regular">>},
                    DecisiveResults, OneRoster)
         \cup NewMatches(self, TitlePairs, {<<TitleStage, "title">>},
                         DecisiveResults, OneRoster)

\* Lines 304-312: the game enters a new stage, which clears the counters.
EntersNewStage(self, g) ==
    /\ g.stage # self.stage
    /\ ~(self.stage # None /\ startswith(g.stage, self.stage))

\* The team behind on the running match score.
Behind(self, g) ==
    IF self.score[g.teams[1]] < self.score[g.teams[2]]
    THEN g.teams[1] ELSE g.teams[2]

InitTitle ==
    /\ p = __init__(DefaultQueueSize, Alpha, Beta)
    /\ pre = p
    /\ game = NoGame
    /\ obs = [evaluated |-> p, training |-> p]
    /\ bo = NoCall
    /\ sim = NoCall
    /\ h = [more |-> FALSE, lost |-> {}, done |-> 0]

TitleReplay ==
    /\ sim = NoCall
    /\ Len(p.points) < MaxTitleGames
    /\ \E g \in TitleLogGames(p), last \in BOOLEAN :
           LET q == train(p, g)
               lost == IF EntersNewStage(p, g) THEN {} ELSE h.lost
               done == IF EntersNewStage(p, g) THEN 0 ELSE h.done
               ended == last /\ g.match_format = "title"
           IN  /\ last => q.score[g.teams[1]] # q.score[g.teams[2]]
               /\ Train(g)
               /\ h' = [more |-> ~last,
                        lost |-> IF ended THEN lost \cup {Behind(q, g)}
                                 ELSE lost,
                        done |-> IF ended THEN done + 1 ELSE done]

\* predict_stage is given the title games still to play, which it leaves
\* out of the simulation.
PredictStageTitleCall ==
    /\ sim = NoCall
    /\ p.stage # None
    /\ sim' = [call |-> "predict_stage",
               games |-> StageGames(p, <<[teams |-> <<"A", "C">>,
                                          stage |-> p.stage,
                                          match_format |-> "title"]>>),
               i |-> 0,
               top3_count |-> [t \in _stage_teams(p) |-> 0],
               top1_count |-> [t \in _stage_teams(p) |-> 0],
               last |-> NoCall,
               prediction |-> NoCall]
    /\ UNCHANGED <<p, pre, game, obs, h, bo>>

NextTitle ==
    \/ TitleReplay
    \/ PredictStageTitleCall
    \/ PredictStageIteration
    \/ PredictStageReturn

SpecTitle == InitTitle /\ [][NextTitle]_vars

----------------------------------------------------------------------------
(* The match-log specification: the logs of the replay specification, with *)
(* h.start the object as it was before the first map of the match the last *)
(* game belongs to.                                                        *)

InitLog ==
    /\ p = __init__(DefaultQueueSize, Alpha, Beta)
    /\ pre = p
    /\ game = NoGame
    /\ obs = [evaluated |-> p, training |-> p]
    /\ bo = NoCall
    /\ sim = NoCall
    /\ h = [start |-> p]

ContinueMatchLog ==
    /\ Len(p.points) < MaxGames
    /\ \E g \in NextMaps(p, game, Results, OneRoster) : Train(g)
    /\ UNCHANGED h

StartMatchLog ==
    /\ Len(p.points) < MaxGames
    /\ \E g \in NewMatches(p, ReplayPairs, ReplayStages, Results, OneRoster) :
           Train(g)
    /\ h' = [start |-> p]

NextLog == ContinueMatchLog \/ StartMatchLog

SpecLog == InitLog /\ [][NextLog]_vars

----------------------------------------------------------------------------
(* Notions the claims are stated with. *)

\* The incoming id textually extends the current id: the current id followed
\* by some suffix.
Extends(incoming, current) ==
    \E k \in 0..Len(incoming) : SubSeq(incoming, 1, k) = current

\* The game starts a new stage: its id differs from the current id and does
\* not textually extend it.
StartsNewStage(self, g) ==
    g.stage # self.stage /\ ~Extends(g.stage, self.stage)

\* The running match score of the game's two teams is tied before the game.
TiedBefore(self, g) ==
    \/ g.match_id # self.match_id
    \/ self.score[g.teams[1]] = self.score[g.teams[2]]

\* The stage win count a team has in the game's stage before the game: its
\* count, or 0 when the game starts a new stage.
StageWinsBefore(self, g, team) ==
    IF StartsNewStage(self, g) THEN 0 ELSE self.stage_wins[team]

StageCounters(self) ==
    <<self.stage_wins, self.stage_losses, self.stage_map_diffs,
      self.stage_head_to_head_map_diffs, self.stage_title_wins,
      self.stage_title_losses>>

Cleared(self) ==
    [self EXCEPT !.stage_wins = ZeroTeams,
                 !.stage_losses = ZeroTeams,
                 !.stage_map_diffs = ZeroTeams,
                 !.stage_head_to_head_map_diffs = ZeroPairs,
                 !.stage_title_wins = ZeroTeams,
                 !.stage_title_losses = ZeroTeams]

----------------------------------------------------------------------------
(* C2 *)

FourNilRegular ==
    /\ game # NoGame
    /\ game.score = <<4, 0>>
    /\ game.match_format = "regular"
    /\ TiedBefore(pre, game)

\* C2, as stated: a decisive regular game that A wins 4-0 from a tied running
\* match score raises the global map-diff of A by 4, lowers that of B by 4 and
\* raises the stage wins of A by 1.
C2_MapDiffByFour ==
    FourNilRegular =>
        /\ p.map_diffs[game.teams[1]] = pre.map_diffs[game.teams[1]] + 4
        /\ p.map_diffs[game.teams[2]] = pre.map_diffs[game.teams[2]] - 4
        /\ p.stage_wins[game.teams[1]] =
               StageWinsBefore(pre, game, game.teams[1]) + 1

\* C2, amended: a decisive regular game that A wins 4-0 from a tied running
\* match score raises the global map-diff of A by 1 (one map, whatever the
\* score of the map), lowers that of B by 1, and raises the stage wins A has
\* in the game's stage by 1.
C2_MapDiffByOne ==
    FourNilRegular =>
        /\ p.map_diffs[game.teams[1]] = pre.map_diffs[game.teams[1]] + 1
        /\ p.map_diffs[game.teams[2]] = pre.map_diffs[game.teams[2]] - 1
        /\ p.stage_wins[game.teams[1]] =
               StageWinsBefore(pre, game, game.teams[1]) + 1

C2_Witness ==
    /\ FourNilRegular
    /\ game.match_id = pre.match_id
    /\ pre.score[game.teams[1]] = 1
    /\ p.map_diffs[game.teams[1]] = 1

----------------------------------------------------------------------------
(* C3 *)

\* C3: the six stage-scoped counters are cleared by update(game) exactly when
\* the game's stage id differs from the current id and does not textually
\* extend it (the first game included): the counters the update leaves are
\* those the game's own contribution gives from all-zero counters in that
\* case, and from the unchanged counters otherwise; an id that differs and
\* extends the current id becomes the stage, with the old id as base stage.
C3_ResetExactlyOnNewStage ==
    game # NoGame =>
        LET from == IF StartsNewStage(pre, game) THEN Cleared(pre) ELSE pre
            inStage == [from EXCEPT !.stage = game.stage]
        IN  /\ StageCounters(p) = StageCounters(train(inStage, game))
            /\ p.stage = game.stage
            /\ (game.stage # pre.stage /\ Extends(game.stage, pre.stage))
                   => p.base_stage = pre.stage
            /\ StartsNewStage(pre, game) => p.base_stage = game.stage

C3_Witness ==
    /\ game # NoGame
    /\ game.stage # pre.stage
    /\ Extends(game.stage, pre.stage)
    /\ pre.stage_wins # ZeroTeams
    /\ pre.stage_title_wins # ZeroTeams
    /\ game.score[1] = game.score[2]
    /\ StageCounters(p) = StageCounters(pre)

----------------------------------------------------------------------------
(* C9 *)

Betas == {0, 1}

\* C9: with alpha = 0.2, predict((A, B)) gives p_win = 0.7 whenever the global
\* map-diff of A is strictly greater than that of B, whatever the gap (3 and
\* -3 give (0.7, 0.0)), p_win = 0.5 when the map-diffs are equal and the
\* head-to-head diff of (A, B) is zero, and p_draw = 0 always, for drawable
\* and undrawable maps and for every beta.
C9_HeuristicPredict ==
    \A tp \in Pairs, d \in BOOLEAN, b \in Betas :
        LET self == [p EXCEPT !.alpha = 2, !.beta = b]
            r == predict(self, tp, d)
        IN  /\ p.map_diffs[tp[1]] > p.map_diffs[tp[2]] => r[1] = 7
            /\ (/\ p.map_diffs[tp[1]] = p.map_diffs[tp[2]]
                /\ p.head_to_head_map_diffs[tp] = 0) => r[1] = 5
            /\ r[2] = 0
            /\ (p.map_diffs[tp[1]] = 3 /\ p.map_diffs[tp[2]] = -3)
                   => r = <<7, 0>>

C9_Witness ==
    /\ p.map_diffs["A"] = 3
    /\ p.map_diffs["B"] = -3
    /\ predict(p, <<"A", "B">>, TRUE) = <<7, 0>>
    /\ p.map_diffs["C"] = 0
    /\ predict(p, <<"C", "D">>, FALSE) = <<5, 0>>

----------------------------------------------------------------------------
(* C1 *)

\* C1: after the 7 decisive maps of one regular-format match (one match id,
\* one stage, contiguous, begun at 0-0), whatever the order of the map
\* winners, the team that won the majority of the maps has exactly 1 more
\* stage win than it had in the match's stage before the match, and the
\* other team has as many as before.
C1_OneStageWinPerMatch ==
    (h.phase = "match" /\ h.maps = 7) =>
        \A w \in {game.teams[1], game.teams[2]} :
            \A l \in {game.teams[1], game.teams[2]} \ {w} :
                h.won[w] > h.won[l] =>
                    /\ p.stage_wins[w] = StageWinsBefore(h.start, game, w) + 1
                    /\ p.stage_wins[l] = StageWinsBefore(h.start, game, l)

\* A 4-3 win of a team that has trailed in the match, with stage wins from
\* before the match kept.
C1_Witness ==
    /\ h.phase = "match"
    /\ h.maps = 7
    /\ h.won["A"] = 4
    /\ h.won["B"] = 3
    /\ "A" \in h.trailed
    /\ "B" \in h.trailed
    /\ h.start.stage_wins["B"] = 1
    /\ p.stage_wins["A"] = 1
    /\ p.stage_wins["B"] = 1

----------------------------------------------------------------------------
(* C8 *)

\* C8: each team's roster history holds exactly the rosters of the team's
\* most recent min(n, capacity) games, most recent first, n being the number
\* of games the team has played and capacity the configured queue size
\* (default 12); so it is never longer than the capacity and a full history
\* loses only its oldest entry when a roster is added.
C8_RosterHistory ==
    \A t \in Teams :
        LET n == Len(h.played[t])
            k == Min(n, p.roster_queue_size)
        IN  /\ p.roster_queues[t] = [i \in 1..k |-> h.played[t][n - i + 1]]
            /\ Len(p.roster_queues[t]) <= p.roster_queue_size

\* B has played more games than a queue of capacity 2 holds, with both
\* line-ups; A has played fewer games than B.
C8_Witness ==
    /\ p.roster_queue_size = 2
    /\ h.played["B"] = <<<<"B", 1>>, <<"B", 2>>, <<"B", 2>>, <<"B", 1>>>>
    /\ p.roster_queues["B"] = <<<<"B", 1>>, <<"B", 2>>>>
    /\ Len(h.played["A"]) = 3
    /\ Len(p.roster_queues["A"]) = 2

----------------------------------------------------------------------------
(* C7 *)

\* C7: train(game) evaluates, then updates the roster history, the standings
\* and the draw counters, then runs the training step: the score and
\* correctness it records for game k are those evaluate gives on the object
\* left by games 1..k-1; evaluate leaves that object as it found it; and the
\* training step finds the game's rosters at the head of the roster
\* histories, the game's stage and match id, the map counted in the global
\* map-diff and the running match score, the draw counted, and the game's
\* match counted in the match number its ratings are filed under.
C7_TrainOrder ==
    game # NoGame =>
        LET seen == obs.training
            new == game.match_id # pre.match_id
        IN  /\ Len(p.points) = Len(pre.points) + 1
            /\ Len(p.corrects) = Len(pre.corrects) + 1
            /\ p.points[Len(p.points)] = evaluate(pre, game)[1]
            /\ p.corrects[Len(p.corrects)] = evaluate(pre, game)[2]
            /\ obs.evaluated = pre
            /\ seen.stage = game.stage
            /\ seen.match_id = game.match_id
            /\ \A i \in {1, 2} :
                   /\ seen.roster_queues[game.teams[i]][1] = game.rosters[i]
                   /\ Len(seen.roster_queues[game.teams[i]]) =
                          Min(Len(pre.roster_queues[game.teams[i]]) + 1,
                              pre.roster_queue_size)
                   /\ match_key(seen, game.teams[i]) =
                          <<game.stage,
                            Len(pre.match_history[game.stage][game.teams[i]])
                                + (IF new THEN 1 ELSE 0)>>
            /\ Decisive(game.score) =>
                   /\ seen.map_diffs[MapWinner(game)] =
                          pre.map_diffs[MapWinner(game)] + 1
                   /\ seen.score[MapWinner(game)] =
                          (IF new THEN 0 ELSE pre.score[MapWinner(game)]) + 1
            /\ ~Decisive(game.score) => seen.real_draws = pre.real_draws + 1

\* A decisive first map of a match between teams level on map-diff: the
\* recorded score is log(1.0), and evaluating after the update would differ.
C7_Witness ==
    /\ game # NoGame
    /\ Decisive(game.score)
    /\ game.match_id # pre.match_id
    /\ pre.match_id # NoMatch
    /\ p.points[Len(p.points)] = ZeroPoint
    /\ evaluate(p, game)[1] # ZeroPoint
    /\ match_key(obs.training, game.teams[1])[2] = 2

----------------------------------------------------------------------------
(* C6 *)

\* C6: for every sequence of per-map drawable flags and every valid pair of
\* per-map probabilities, the distribution over terminal series scores the
\* calculator returns, tie-breaker included, has total mass 1 (one^(n + 1)
\* in numerators, n maps and the tie-breaker).
C6_TotalMassOne ==
    bo.call = "_predict_bo_match_score" =>
        TotalMass(bo.p_scores) = Pow(Denom, Len(bo.drawables) + 1)

\* The same for the two built-in formats, whose last map is undrawable.
BuiltInTotalMassOne ==
    (bo.call = "predict_match_score" /\ bo.p_scores # NotImplementedError) =>
        TotalMass(bo.p_scores) = Pow(Denom, Len(bo.drawables) + 1)

----------------------------------------------------------------------------
(* C10 *)

\* C10: when no map can be drawn, then for both supported formats and every
\* terminal score (x, y), the probability of (x, y) for team order (A, B)
\* with per-map win probability w equals the probability of (y, x) for team
\* order (B, A) with win probability 1 - w (w on the drawable maps may differ
\* from w on the undrawable ones).
C10_RoleSymmetry ==
    (/\ bo.call = "predict_match_score"
     /\ bo.match_format \in {"regular", "title"}
     /\ bo.p_drawable[2] = 0) =>
        /\ DOMAIN bo.other_order = {<<k[2], k[1]>> : k \in DOMAIN bo.p_scores}
        /\ \A k \in DOMAIN bo.p_scores :
               bo.p_scores[k] = bo.other_order[<<k[2], k[1]>>]

\* A regular series with w = 3/4 on every map: 3-2 after a 2-2 tie has mass
\* 6 * 9 * 3 and 2-3 has mass 6 * 9 * 1, out of 4^5.
C10_Witness ==
    /\ bo.call = "predict_match_score"
    /\ bo.match_format = "regular"
    /\ bo.p_undrawable = <<3, 0>>
    /\ bo.p_drawable = <<3, 0>>
    /\ bo.p_scores[<<3, 2>>] = 162
    /\ bo.p_scores[<<2, 3>>] = 54
    /\ bo.other_order[<<2, 3>>] = 162

----------------------------------------------------------------------------
(* C4 *)

Antisymmetric(f) == \A x, y \in Teams : f[<<x, y>>] = -f[<<y, x>>]

\* C4: in every state reached by replaying games, and in the private copy of
\* every Monte Carlo iteration, the head-to-head map-diff of (X, Y) is the
\* negation of that of (Y, X), for the global and for the stage-scoped
\* record, stage resets included.
C4_HeadToHeadAntisymmetric ==
    /\ Antisymmetric(p.head_to_head_map_diffs)
    /\ Antisymmetric(p.stage_head_to_head_map_diffs)
    /\ (sim.call = "predict_stage" /\ sim.last # NoCall) =>
           Antisymmetric(sim.last.head_to_head_map_diffs)

\* A and B met in stage "1", C and D in stage "2", which cleared the stage
\* record of A and B; the iteration sampled a further series of A and B.
C4_Witness ==
    /\ sim.call = "predict_stage"
    /\ sim.last # NoCall
    /\ p.stage = <<"2">>
    /\ p.head_to_head_map_diffs[<<"A", "B">>] = 1
    /\ p.stage_head_to_head_map_diffs[<<"A", "B">>] = 0
    /\ p.stage_head_to_head_map_diffs[<<"D", "C">>] = 1
    /\ sim.last.head_to_head_map_diffs[<<"B", "A">>] = 4
    /\ sim.last.head_to_head_map_diffs[<<"C", "D">>] = -1

----------------------------------------------------------------------------
(* C5 *)

\* The bound-tightening rule marks the team clinched: its worst-case pair is
\* greater than the 4th-largest best-case pair.
Clinched(self, games, team) ==
    PairLess(max_4th_wins(self, games), min_wins(self, games)[team])

\* C5: a team the bound-tightening rule marks clinched is among the top 3 of
\* every iteration, whatever scores are sampled and however ties are broken:
\* its top-3 count is the number of iterations run, so its frequency is
\* exactly 1, and predict_stage reports True for it.
C5_ClinchedAlwaysTop3 ==
    sim.call = "predict_stage" =>
        \A t \in _stage_teams(p) :
            Clinched(p, sim.games, t) =>
                /\ sim.top3_count[t] = sim.i
                /\ sim.last # NoCall =>
                       \E j \in 1..3 : sim.last.top3[j] = t
                /\ sim.prediction # NoCall =>
                       /\ Frequency(sim.top3_count[t], Iters)
                              = Frequency(Iters, Iters)
                       /\ sim.prediction[t][1] = Definite(TRUE)

\* A is clinched with a series against B still to play, loses it 0-4 in the
\* iteration, and a team that is not clinched misses the top 3.
C5_Witness ==
    /\ sim.call = "predict_stage"
    /\ sim.prediction # NoCall
    /\ sim.games = <<[teams |-> <<"A", "B">>, stage |-> p.stage,
                      match_format |-> "regular"]>>
    /\ Clinched(p, sim.games, "A")
    /\ ~Clinched(p, sim.games, "C")
    /\ sim.last.map_diffs["A"] = p.stage_map_diffs["A"] - 4
    /\ sim.top3_count["A"] = Iters
    /\ sim.top3_count["C"] = 0
    /\ sim.prediction["A"][1] = Definite(TRUE)
    /\ sim.prediction["C"][1] = Frequency(0, Iters)

----------------------------------------------------------------------------
(* C12 *)

\* C12: a decisive game that triggers no new-stage reset.  With match_format
\* title it moves the global map-diff and the global head-to-head diff of
\* winner and loser by one and leaves the stage map-diff, the stage
\* head-to-head diff, the stage wins and the stage losses of every team as
\* they were (only the title win/loss counters may change); with
\* match_format regular it moves the stage map-diff and the stage
\* head-to-head diff of winner and loser by one and leaves the title wins
\* and title losses of every team as they were.
C12_TitleCountersLayered ==
    (game # NoGame /\ Decisive(game.score) /\ ~StartsNewStage(pre, game)) =>
        LET w == MapWinner(game)
            l == MapLoser(game)
        IN  /\ game.match_format = "title" =>
                   /\ p.map_diffs[w] = pre.map_diffs[w] + 1
                   /\ p.map_diffs[l] = pre.map_diffs[l] - 1
                   /\ p.head_to_head_map_diffs[<<w, l>>] =
                          pre.head_to_head_map_diffs[<<w, l>>] + 1
                   /\ p.head_to_head_map_diffs[<<l, w>>] =
                          pre.head_to_head_map_diffs[<<l, w>>] - 1
                   /\ p.stage_map_diffs = pre.stage_map_diffs
                   /\ p.stage_head_to_head_map_diffs =
                          pre.stage_head_to_head_map_diffs
                   /\ p.stage_wins = pre.stage_wins
                   /\ p.stage_losses = pre.stage_losses
            /\ game.match_format = "regular" =>
                   /\ p.stage_map_diffs[w] = pre.stage_map_diffs[w] + 1
                   /\ p.stage_map_diffs[l] = pre.stage_map_diffs[l] - 1
                   /\ p.stage_head_to_head_map_diffs[<<w, l>>] =
                          pre.stage_head_to_head_map_diffs[<<w, l>>] + 1
                   /\ p.stage_head_to_head_map_diffs[<<l, w>>] =
                          pre.stage_head_to_head_map_diffs[<<l, w>>] - 1
                   /\ p.stage_title_wins = pre.stage_title_wins
                   /\ p.stage_title_losses = pre.stage_title_losses

\* The first map of a title match in the title sub-stage of a stage that has
\* regular results: the title counters move, the regular ones stay.
C12_Witness ==
    /\ game # NoGame
    /\ Decisive(game.score)
    /\ game.match_format = "title"
    /\ game.stage # pre.stage
    /\ ~StartsNewStage(pre, game)
    /\ pre.stage_wins # ZeroTeams
    /\ pre.stage_map_diffs # ZeroTeams
    /\ p.stage_title_wins[MapWinner(game)] =
           pre.stage_title_wins[MapWinner(game)] + 1
    /\ p.stage_title_losses[MapLoser(game)] =
           pre.stage_title_losses[MapLoser(game)] + 1
    /\ p.stage_wins = pre.stage_wins

----------------------------------------------------------------------------
(* C14 *)

\* 1 when the running match score has team ahead of other, else 0.
Leads(self, team, other) ==
    IF self.score[team] > self.score[other] THEN 1 ELSE 0

\* The win and loss counters a match of the given format is counted in, and
\* those of the other format.
MatchCounters(self, match_format) ==
    IF match_format = "title"
    THEN <<self.stage_title_wins, self.stage_title_losses>>
    ELSE <<self.stage_wins, self.stage_losses>>

OtherCounters(self, match_format) ==
    IF match_format = "title"
    THEN <<self.stage_wins, self.stage_losses>>
    ELSE <<self.stage_title_wins, self.stage_title_losses>>

\* C14: after every prefix of the maps of a match (decisive or drawn, one
\* match id, one stage, one format, replayed contiguously), the win counter
\* of the match's format has risen by exactly 1, since before the match, for
\* the team ahead on running match score, the loss counter by exactly 1 for
\* the team behind, and neither has moved for either team while the score is
\* tied, nor for any other team or in the other format's counters; and in
\* every state of a log of such matches, stage wins, stage losses, title
\* wins and title losses are never negative and wins total what losses do.
C14_MatchContribution ==
    /\ game # NoGame =>
           LET from == IF StartsNewStage(h.start, game)
                       THEN Cleared(h.start) ELSE h.start
               now == MatchCounters(p, game.match_format)
               was == MatchCounters(from, game.match_format)
               t1 == game.teams[1]
               t2 == game.teams[2]
           IN  /\ now[1][t1] - was[1][t1] = Leads(p, t1, t2)
               /\ now[1][t2] - was[1][t2] = Leads(p, t2, t1)
               /\ now[2][t1] - was[2][t1] = Leads(p, t2, t1)
               /\ now[2][t2] - was[2][t2] = Leads(p, t1, t2)
               /\ \A t \in Teams \ {t1, t2} :
                      now[1][t] = was[1][t] /\ now[2][t] = was[2][t]
               /\ OtherCounters(p, game.match_format) =
                      OtherCounters(from, game.match_format)
    /\ \A t \in Teams :
           /\ p.stage_wins[t] >= 0
           /\ p.stage_losses[t] >= 0
           /\ p.stage_title_wins[t] >= 0
           /\ p.stage_title_losses[t] >= 0
    /\ SumOf(p.stage_wins, Teams) = SumOf(p.stage_losses, Teams)
    /\ SumOf(p.stage_title_wins, Teams) = SumOf(p.stage_title_losses, Teams)

\* A title match of three maps: 2-0, then the team behind wins a map and
\* stays behind, so the credit stays where it was.
C14_Witness ==
    /\ game # NoGame
    /\ game.match_format = "title"
    /\ h.start.match_id = NoMatch
    /\ Len(p.points) = 3
    /\ p.score[game.teams[1]] = 2
    /\ p.score[game.teams[2]] = 1
    /\ MapWinner(game) = game.teams[2]
    /\ p.stage_title_wins[game.teams[1]] = 1
    /\ p.stage_title_losses[game.teams[2]] = 1
    /\ p.stage_title_wins[game.teams[2]] = 0

\* The score was tied at 1-1 by a map that took the credit back.
C14_TiedWitness ==
    /\ game # NoGame
    /\ game.match_id = pre.match_id
    /\ p.score[game.teams[1]] = 1
    /\ p.score[game.teams[2]] = 1
    /\ pre.stage_wins # ZeroTeams
    /\ p.stage_wins = ZeroTeams
    /\ p.stage_losses = ZeroTeams

----------------------------------------------------------------------------
(* C11 *)

\* A pair of teams is fully tied on the counters: equal wins, equal
\* map-diff and zero head-to-head diff.
FullyTied(c, x, y) ==
    /\ c.wins[x] = c.wins[y]
    /\ c.map_diffs[x] = c.map_diffs[y]
    /\ c.head_to_head_map_diffs[<<x, y>>] = 0

NoFullTie(c) == \A x, y \in Teams : x # y => ~FullyTied(c, x, y)

\* x ranks below y by the deterministic comparison: cmp_team(x, y) < 0
\* without a random draw.
RanksBelow(c, x, y) == cmp_team_lt(c, x, y) = {TRUE}

RankAntisymmetric(c) ==
    \A x, y \in Teams : x # y => (RanksBelow(c, x, y) <=> ~RanksBelow(c, y, x))

RankTransitive(c) ==
    \A x, y, z \in Teams :
        (RanksBelow(c, x, y) /\ RanksBelow(c, y, z)) => RanksBelow(c, x, z)

\* The list _top3_teams returns is the same for every order in which the
\* teams are enumerated and every outcome of the comparisons.
Top3Unique(c) ==
    \A order \in Orders(Teams) : _top3_teams(c, order) = {sim.top3}

\* C11: on the counters of a simulation iteration in which no pair of teams
\* is fully tied, the comparison by stage wins, then stage map-diff, then
\* sign of head-to-head map-diff is antisymmetric and transitive, and the
\* top 3 are determined by the counters alone, whatever the order in which
\* the teams are enumerated.
C11_RankingTotalOrder ==
    (sim.call = "_top3_teams" /\ NoFullTie(sim.c)) =>
        /\ RankAntisymmetric(sim.c)
        /\ RankTransitive(sim.c)
        /\ Top3Unique(sim.c)

\* What does hold: without a full tie the comparison is antisymmetric, and
\* where it is also transitive the top 3 are determined by the counters.
RankingUniqueWhenTransitive ==
    (sim.call = "_top3_teams" /\ NoFullTie(sim.c)) =>
        /\ RankAntisymmetric(sim.c)
        /\ RankTransitive(sim.c) => Top3Unique(sim.c)

\* A case of the latter: four teams apart on wins or map-diff.
RankingUniqueWitness ==
    /\ sim.call = "_top3_teams"
    /\ NoFullTie(sim.c)
    /\ RankTransitive(sim.c)
    /\ sim.top3 = <<"A", "C", "D">>

\* The counters the claim fails on: A, B and C level on wins and map-diff
\* with A ahead of B, B of C and C of A head to head.
RankingCycle ==
    /\ sim.call = "_top3_teams"
    /\ NoFullTie(sim.c)
    /\ RanksBelow(sim.c, "B", "A")
    /\ RanksBelow(sim.c, "C", "B")
    /\ RanksBelow(sim.c, "A", "C")

----------------------------------------------------------------------------
(* C13 *)

\* predict_stage has returned.
Predicted == sim.call = "predict_stage" /\ sim.prediction # NoCall

\* C13: when predict_stage is called after any prefix of a chronological
\* log, possibly between two maps of a title series, a team clinched in the
\* top 3 is reported top-1 = False only if it has lost a title match of the
\* stage whose maps are all replayed, and top-1 = True only if both title
\* matches of the stage are complete and it lost neither; so a title series
\* still in progress never causes a definite top-1 answer.
C13_DefiniteTop1OnlyFromCompleteTitles ==
    Predicted =>
        \A t \in _stage_teams(p) :
            Clinched(p, sim.games, t) =>
                /\ sim.prediction[t][2] = Definite(FALSE) => t \in h.lost
                /\ sim.prediction[t][2] = Definite(TRUE) =>
                       (h.done = 2 /\ t \notin h.lost)

\* What does hold: the definite answers follow the title loss counters as
\* they stand, provisional credit of a series in progress included, and
\* between matches that is what the claim says.
DefiniteTop1FollowsCounters ==
    Predicted =>
        \A t \in _stage_teams(p) :
            Clinched(p, sim.games, t) =>
                /\ sim.prediction[t][2] = Definite(FALSE) <=>
                       p.stage_title_losses[t] > 0
                /\ sim.prediction[t][2] = Definite(TRUE) <=>
                       (p.stage_title_losses[t] = 0 /\ stage_finished(p))
                /\ ~h.more =>
                       /\ p.stage_title_losses[t] > 0 <=> t \in h.lost
                       /\ stage_finished(p) <=> h.done = 2

\* Between matches: both title matches are complete and a clinched team
\* that lost neither is reported top-1.
DefiniteTop1Witness ==
    /\ Predicted
    /\ ~h.more
    /\ h.done = 2
    /\ Clinched(p, sim.games, "A")
    /\ sim.prediction["A"] = <<Definite(TRUE), Definite(TRUE)>>

\* The case the claim fails on: a clinched team trails in a title series
\* that has maps to come and is reported top-1 = False.
ProvisionalTitleLoss ==
    /\ Predicted
    /\ h.more
    /\ h.lost = {}
    /\ game.match_format = "title"
    /\ Clinched(p, sim.games, "A")
    /\ sim.prediction["A"] = <<Definite(TRUE), Definite(FALSE)>>

====
